---- MODULE Spec2Model ----
(***************************************************************************)
(* Model of backend/app.py: the batch download handler download_selected   *)
(* with its worker download_and_prepare running on a thread pool, and the  *)
(* element loop of scrape.                                                 *)
(*                                                                         *)
(* Strings are sequences of one-character strings, so that sanitizing,     *)
(* substring tests and concatenation are computed as the code computes     *)
(* them.                                                                   *)
(***************************************************************************)
EXTENDS Integers, Sequences, FiniteSets, TLC

VARIABLES
    images_to_download, \* the request list (app.py:254)
    net,            \* what the network answers to the fetch of request i
    pc,             \* position of the handler thread of download_selected
    response,       \* what the handler returned to the caller
    wpc,            \* position of download_and_prepare(images_to_download[i])
    filename,       \* the local variable filename of worker i (app.py:285)
    future,         \* outcome of the future of request i
    lock,           \* threading.Lock: 0 when free, else the holding worker
    seen_filenames, \* the shared filename namespace (app.py:259)
    zf,             \* the entries written to the archive, in order
    yielded,        \* futures as_completed has already handed to the loop
    raised,         \* an exception left the aggregating loop
    url,            \* scrape: the page URL of the request (app.py:88)
    page,           \* scrape: what the network answers to the page fetch
    soup,           \* scrape: the img elements of the page, document order
    scrape_pc,      \* scrape: position of the handler
    done,           \* scrape: number of elements the loop has gone through
    images,         \* scrape: the records emitted so far (app.py:103)
    seen_srcs,      \* scrape: the URLs already emitted (app.py:104)
    data,           \* download_image: the JSON body of the request (app.py:214)
    image_net,      \* download_image: what the network answers to the fetch
    image_pc,       \* download_image: position of the handler
    image_response  \* download_image: what the handler returned

batchVars == <<images_to_download, net, pc, response, wpc, filename, future,
               lock, seen_filenames, zf, yielded, raised>>

scrapeVars == <<url, page, soup, scrape_pc, done, images, seen_srcs>>

imageVars == <<data, image_net, image_pc, image_response>>

vars == <<batchVars, scrapeVars, imageVars>>

----------------------------------------------------------------------------
(* Bounds of the model *)

\* longest request list whose items are drawn freely
MaxReq == 2
\* by how many requests the long request list exceeds the pool
Overflow == 1

----------------------------------------------------------------------------
(* Strings *)

Min(a, b) == IF a < b THEN a ELSE b

\* sub in s, for strings
Contains(sub, s) ==
    \E k \in 0..(Len(s) - Len(sub)) : SubSeq(s, k + 1, k + Len(sub)) = sub

\* str.replace('_', ' ')
ReplaceUnderscores(s) == [k \in 1..Len(s) |-> IF s[k] = "_" THEN " " ELSE s[k]]

\* the character class of the re.sub of sanitize_filename
InvalidChars == {"\\", "/", "*", "?", ":", "\"", "<", ">", "|"}

RemoveInvalid(s) == SelectSeq(s, LAMBDA c : c \notin InvalidChars)

\* the slice bound of sanitize_filename
NameLimit == 100

sanitize_filename_NoLimit(name) == RemoveInvalid(ReplaceUnderscores(name))

sanitize_filename(name) ==
    LET sanitized == RemoveInvalid(ReplaceUnderscores(name))
    IN  SubSeq(sanitized, 1, Min(NameLimit, Len(sanitized)))

----------------------------------------------------------------------------
(* Extension inference, app.py:273-283 *)

JPG == <<".", "j", "p", "g">>
PNG == <<".", "p", "n", "g">>
GIF == <<".", "g", "i", "f">>
SVG == <<".", "s", "v", "g">>

Extension_WithoutGif(content_type) ==
    IF content_type = <<>> THEN JPG
    ELSE IF Contains(<<"j", "p", "e", "g">>, content_type) THEN JPG
    ELSE IF Contains(<<"p", "n", "g">>, content_type) THEN PNG
    ELSE IF Contains(<<"s", "v", "g">>, content_type) THEN SVG
    ELSE JPG

\* content_type is <<>> when the header is absent or empty (both falsy)
Extension(content_type) ==
    IF content_type = <<>> THEN JPG
    ELSE IF Contains(<<"j", "p", "e", "g">>, content_type) THEN JPG
    ELSE IF Contains(<<"p", "n", "g">>, content_type) THEN PNG
    ELSE IF Contains(<<"g", "i", "f">>, content_type) THEN GIF
    ELSE IF Contains(<<"s", "v", "g">>, content_type) THEN SVG
    ELSE JPG

----------------------------------------------------------------------------
(* Request items and network answers *)

\* the default of image_info.get('alt', 'no_alt_name')
NoAltName == <<"n", "o", "_", "a", "l", "t", "_", "n", "a", "m", "e">>

\* An item's alt is absent, JSON null, or a string.
AbsentAlt == [kind |-> "absent", text |-> <<>>]
NullAlt   == [kind |-> "null", text |-> <<>>]
StrAlt(s) == [kind |-> "str", text |-> s]

\* image_info.get('alt', 'no_alt_name'): the default only when the key is absent
AltText(image_info) ==
    IF image_info.alt.kind = "absent" THEN StrAlt(NoAltName) ELSE image_info.alt

AltValues == {AbsentAlt, NullAlt, StrAlt(<<"a", "_", "b">>), StrAlt(<<"a", " ", "b">>)}

\* src is <<>> when the key is absent, null or empty (all falsy at app.py:266)
SrcValues == {<<>>, <<"u">>}

ImageJpeg == <<"i", "m", "a", "g", "e", "/", "j", "p", "e", "g">>

\* requests.get or raise_for_status raised a RequestException
Failed == [status |-> "error", content_type |-> <<>>, body |-> "none"]
\* status and headers arrived; body "broken" is a stream that fails while read
Answered(ct, b) == [status |-> "ok", content_type |-> ct, body |-> b]

Answers ==
    {Failed, Answered(ImageJpeg, "c1"), Answered(<<>>, "c2"),
     Answered(ImageJpeg, "broken")}

\* One request with the answer its fetch will get.  An item without a source
\* is never fetched, and a failed fetch never reads the name.
Cases ==
    {c \in [src : SrcValues, alt : AltValues, net : Answers] :
        /\ c.src = <<>> => (c.net = Failed /\ c.alt = AbsentAlt)
        /\ c.net = Failed => c.alt = AbsentAlt}

Batches == UNION {[1..n -> Cases] : n \in 0..MaxReq}

\* the requests that are fetched and have no alt: all compute the filename
\* "no alt name.jpg"
UnnamedCases == {c \in Cases : c.alt = AbsentAlt /\ c.net.status = "ok"}

\* request lists one longer than MaxReq whose requests all compute the same
\* filename
Crowds == [1..(MaxReq + 1) -> UnnamedCases]

\* ThreadPoolExecutor(max_workers=10)
max_workers == 10

\* a request list longer than the pool: every fetch fails
LongBatch == [i \in 1..(max_workers + Overflow) |->
                 [src |-> <<"u">>, alt |-> AbsentAlt, net |-> Failed]]

----------------------------------------------------------------------------
(* Futures *)

Pending == [kind |-> "pending"]
\* download_and_prepare returned None
NoResult == [kind |-> "none"]
\* download_and_prepare returned (filename, response.content)
Result(f, c) == [kind |-> "result", filename |-> f, content |-> c]
\* download_and_prepare left by an exception, stored in the future
Raised == [kind |-> "raised"]

Requests == 1..Len(images_to_download)

\* requests taken by a pool thread and not finished
Running == {i \in Requests : wpc[i] \notin {"queued", "done"}}

\* no scrape request is being handled
ScrapeIdle ==
    /\ url = <<>>
    /\ page = "none"
    /\ soup = <<>>
    /\ scrape_pc = "idle"
    /\ done = 0
    /\ images = <<>>
    /\ seen_srcs = {}

\* what download_image has returned: nothing yet
NoResponse == [kind |-> "none"]

\* no download_image request is being handled
ImageIdle ==
    /\ data = [url |-> <<>>, alt |-> AbsentAlt]
    /\ image_net = Failed
    /\ image_pc = "idle"
    /\ image_response = NoResponse

----------------------------------------------------------------------------
\* a batch request for the list b has arrived
Arrived(b) ==
    /\ images_to_download = [i \in 1..Len(b) |-> [src |-> b[i].src, alt |-> b[i].alt]]
    /\ net = [i \in 1..Len(b) |-> b[i].net]
    /\ pc = "request"
    /\ response = "none"
    /\ wpc = [i \in Requests |-> "queued"]
    /\ filename = [i \in Requests |-> <<>>]
    /\ future = [i \in Requests |-> Pending]
    /\ lock = 0
    /\ seen_filenames = {}
    /\ zf = <<>>
    /\ yielded = {}
    /\ raised = FALSE
    /\ ScrapeIdle

Init == (\E b \in Batches \cup Crowds \cup {LongBatch} : Arrived(b)) /\ ImageIdle

\* the batches without the long one
InitShort == (\E b \in Batches \cup Crowds : Arrived(b)) /\ ImageIdle

----------------------------------------------------------------------------
(* download_selected, the handler thread *)

\* app.py:253-303: the empty list is answered with an error, otherwise the
\* namespace, the lock and the archive are created and every item is submitted
Submit ==
    /\ pc = "request"
    /\ IF images_to_download = <<>>
       THEN /\ pc' = "done"
            /\ response' = "error 400"
       ELSE /\ pc' = "pool"
            /\ UNCHANGED response
    /\ UNCHANGED <<scrapeVars, imageVars>>
    /\ UNCHANGED <<images_to_download, net, wpc, filename, future, lock, seen_filenames,
                   zf, yielded, raised>>

Truthy_OnlyFirst(result) == result.kind = "result" /\ zf = <<>>

\* if result: (app.py:307)
Truthy(result) == result.kind = "result"

\* app.py:305-309: one iteration of the loop over as_completed;
\* future.result() re-raises what the worker raised, which ends the loop
Collect(i) ==
    /\ pc = "pool"
    /\ ~raised
    /\ wpc[i] = "done"
    /\ i \notin yielded
    /\ yielded' = yielded \cup {i}
    /\ IF future[i] = Raised
       THEN /\ raised' = TRUE
            /\ UNCHANGED zf
       ELSE /\ UNCHANGED raised
            /\ zf' = IF Truthy(future[i])
                     THEN Append(zf, [filename |-> future[i].filename,
                                      content |-> future[i].content])
                     ELSE zf
    /\ UNCHANGED <<scrapeVars, imageVars>>
    /\ UNCHANGED <<images_to_download, net, pc, response, wpc, filename, future, lock,
                   seen_filenames>>

ShutdownWaits_NoJoin == TRUE

\* leaving "with ThreadPoolExecutor": shutdown(wait=True) joins every worker
ShutdownWaits == \A i \in Requests : wpc[i] = "done"

\* app.py:302-318: the loop is over (exhausted, or left by an exception), the
\* executor is shut down and the archive is sent, or the exception reaches
\* the caller as an error
Return ==
    /\ pc = "pool"
    /\ raised \/ yielded = Requests
    /\ ShutdownWaits
    /\ pc' = "done"
    /\ response' = IF raised THEN "error 500" ELSE "archive"
    /\ UNCHANGED <<scrapeVars, imageVars>>
    /\ UNCHANGED <<images_to_download, net, wpc, filename, future, lock, seen_filenames,
                   zf, yielded, raised>>

----------------------------------------------------------------------------
(* download_and_prepare, run by the pool threads *)

PoolHasIdleThread_Unbounded == TRUE

\* ThreadPoolExecutor(max_workers=10): a thread is free to take a work item
PoolHasIdleThread == Cardinality(Running) < max_workers

OnRequestException_Uncaught == Raised

\* except requests.exceptions.RequestException: return None (app.py:295-297)
OnRequestException == NoResult

\* a pool thread takes the oldest queued item; app.py:263-267
Start(i) ==
    /\ pc = "pool"
    /\ wpc[i] = "queued"
    /\ \A j \in Requests : j < i => wpc[j] # "queued"
    /\ PoolHasIdleThread
    /\ IF images_to_download[i].src = <<>>
       THEN /\ wpc' = [wpc EXCEPT ![i] = "done"]
            /\ future' = [future EXCEPT ![i] = NoResult]
       ELSE /\ wpc' = [wpc EXCEPT ![i] = "fetch"]
            /\ UNCHANGED future
    /\ UNCHANGED <<scrapeVars, imageVars>>
    /\ UNCHANGED <<images_to_download, net, pc, response, filename, lock, seen_filenames,
                   zf, yielded, raised>>

\* app.py:270-285: the fetch up to the headers, then the filename;
\* sanitize_filename(None) raises AttributeError, which no handler catches
Fetch(i) ==
    /\ wpc[i] = "fetch"
    /\ IF net[i].status = "error"
       THEN /\ wpc' = [wpc EXCEPT ![i] = "done"]
            /\ future' = [future EXCEPT ![i] = OnRequestException]
            /\ UNCHANGED filename
       ELSE IF AltText(images_to_download[i]).kind = "null"
       THEN /\ wpc' = [wpc EXCEPT ![i] = "done"]
            /\ future' = [future EXCEPT ![i] = Raised]
            /\ UNCHANGED filename
       ELSE /\ wpc' = [wpc EXCEPT ![i] = "lock"]
            /\ filename' = [filename EXCEPT ![i] =
                  sanitize_filename(AltText(images_to_download[i]).text)
                      \o Extension(net[i].content_type)]
            /\ UNCHANGED future
    /\ UNCHANGED <<scrapeVars, imageVars>>
    /\ UNCHANGED <<images_to_download, net, pc, response, lock, seen_filenames, zf,
                   yielded, raised>>

LockAvailable_NoMutex == TRUE

\* lock.acquire() succeeds only on a free lock
LockAvailable == lock = 0

\* with lock: (app.py:287)
Acquire(i) ==
    /\ wpc[i] = "lock"
    /\ LockAvailable
    /\ lock' = i
    /\ wpc' = [wpc EXCEPT ![i] = "check"]
    /\ UNCHANGED <<scrapeVars, imageVars>>
    /\ UNCHANGED <<images_to_download, net, pc, response, filename, future,
                   seen_filenames, zf, yielded, raised>>

IsDuplicate_AnySeen(f, seen) == seen # {}

\* filename in seen_filenames (app.py:288)
IsDuplicate(f, seen) == f \in seen

Check_KeepsLockOnDuplicate(i) ==
    /\ wpc[i] = "check"
    /\ IF IsDuplicate(filename[i], seen_filenames)
       THEN /\ wpc' = [wpc EXCEPT ![i] = "done"]
            /\ future' = [future EXCEPT ![i] = NoResult]
            /\ UNCHANGED lock
       ELSE /\ wpc' = [wpc EXCEPT ![i] = "add"]
            /\ UNCHANGED <<future, lock>>
    /\ UNCHANGED <<scrapeVars, imageVars>>
    /\ UNCHANGED <<images_to_download, net, pc, response, filename, seen_filenames, zf,
                   yielded, raised>>

\* app.py:288-290: the membership test; a duplicate returns None, and
\* leaving the with block releases the lock
Check(i) ==
    /\ wpc[i] = "check"
    /\ IF IsDuplicate(filename[i], seen_filenames)
       THEN /\ wpc' = [wpc EXCEPT ![i] = "done"]
            /\ future' = [future EXCEPT ![i] = NoResult]
            /\ lock' = 0
       ELSE /\ wpc' = [wpc EXCEPT ![i] = "add"]
            /\ UNCHANGED <<future, lock>>
    /\ UNCHANGED <<scrapeVars, imageVars>>
    /\ UNCHANGED <<images_to_download, net, pc, response, filename, seen_filenames, zf,
                   yielded, raised>>

\* app.py:291: seen_filenames.add(filename), then the with block ends
Add(i) ==
    /\ wpc[i] = "add"
    /\ seen_filenames' = seen_filenames \cup {filename[i]}
    /\ lock' = 0
    /\ wpc' = [wpc EXCEPT ![i] = "content"]
    /\ UNCHANGED <<scrapeVars, imageVars>>
    /\ UNCHANGED <<images_to_download, net, pc, response, filename, future, zf, yielded,
                   raised>>

\* app.py:293: response.content reads the body of the streamed response
\* (stream=True); a failure while reading is a RequestException
Content(i) ==
    /\ wpc[i] = "content"
    /\ wpc' = [wpc EXCEPT ![i] = "done"]
    /\ future' = [future EXCEPT ![i] =
          IF net[i].body = "broken" THEN OnRequestException
          ELSE Result(filename[i], net[i].body)]
    /\ UNCHANGED <<scrapeVars, imageVars>>
    /\ UNCHANGED <<images_to_download, net, pc, response, filename, lock, seen_filenames,
                   zf, yielded, raised>>

----------------------------------------------------------------------------
Next ==
    \/ Submit
    \/ Return
    \/ \E i \in Requests : Collect(i)
    \/ \E i \in Requests : Start(i)
    \/ \E i \in Requests : Fetch(i)
    \/ \E i \in Requests : Acquire(i)
    \/ \E i \in Requests : Check(i)
    \/ \E i \in Requests : Add(i)
    \/ \E i \in Requests : Content(i)

Spec == Init /\ [][Next]_vars

\* the pool threads and the handler thread keep being scheduled, and every
\* fetch ends: some enabled step is eventually taken
FairSpec == InitShort /\ [][Next]_vars /\ WF_vars(Next)

----------------------------------------------------------------------------
(* String and URL functions used by scrape *)

\* the least element of a non-empty set of numbers
Least(S) == CHOOSE k \in S : \A j \in S : k <= j
Greatest(S) == CHOOSE k \in S : \A j \in S : k >= j

\* the positions of the character c in s
Positions(c, s) == {k \in 1..Len(s) : s[k] = c}

\* s[k:], from position k (counted from 1) to the end
From(s, k) == SubSeq(s, k, Len(s))

\* s.startswith(prefix)
StartsWith(prefix, s) ==
    Len(prefix) <= Len(s) /\ SubSeq(s, 1, Len(prefix)) = prefix

UpperCase == <<"A", "B", "C", "D", "E", "F", "G", "H", "I", "J", "K", "L", "M",
               "N", "O", "P", "Q", "R", "S", "T", "U", "V", "W", "X", "Y", "Z">>
LowerCase == <<"a", "b", "c", "d", "e", "f", "g", "h", "i", "j", "k", "l", "m",
               "n", "o", "p", "q", "r", "s", "t", "u", "v", "w", "x", "y", "z">>

ToLower(c) ==
    IF \E k \in 1..Len(UpperCase) : UpperCase[k] = c
    THEN LowerCase[CHOOSE k \in 1..Len(UpperCase) : UpperCase[k] = c]
    ELSE c

\* str.lower()
lower(s) == [k \in 1..Len(s) |-> ToLower(s[k])]

Whitespace == {" ", "\t", "\n", "\r"}

\* str.strip()
strip(s) ==
    LET kept == {k \in 1..Len(s) : s[k] \notin Whitespace}
    IN  IF kept = {} THEN <<>> ELSE SubSeq(s, Least(kept), Greatest(kept))

Letters == {UpperCase[k] : k \in 1..Len(UpperCase)}
              \cup {LowerCase[k] : k \in 1..Len(LowerCase)}
Digits == {"0", "1", "2", "3", "4", "5", "6", "7", "8", "9"}

\* urlsplit: the position of the colon that ends a scheme, 0 without scheme
SchemeColon(s) ==
    IF Positions(":", s) = {} THEN 0
    ELSE LET k == Least(Positions(":", s))
         IN  IF /\ k > 1
                /\ s[1] \in Letters
                /\ \A j \in 1..(k - 1) : s[j] \in Letters \cup Digits \cup {"+", "-", "."}
             THEN k ELSE 0

\* urlsplit: the length of the netloc at the start of s, up to the first
\* "/", "?" or "#"
NetlocLength(s) ==
    IF \E k \in 1..Len(s) : s[k] \in {"/", "?", "#"}
    THEN Least({k \in 1..Len(s) : s[k] \in {"/", "?", "#"}}) - 1
    ELSE Len(s)

\* the position of the first c in s, Len(s) + 1 when there is none
FirstOrEnd(c, s) == IF Positions(c, s) = {} THEN Len(s) + 1 ELSE Least(Positions(c, s))

\* urlparse: the position of the ";" that starts the params in the last
\* segment of the path, Len(path) + 1 when there is none
ParamsMark(path) ==
    IF \E k \in Positions(";", path) : \A j \in Positions("/", path) : j < k
    THEN Least({k \in Positions(";", path) : \A j \in Positions("/", path) : j < k})
    ELSE Len(path) + 1

\* path;params, split
PathParts(scheme, netloc, fullPath, mark, query, fragment) ==
    [scheme |-> scheme,
     netloc |-> netloc,
     path |-> SubSeq(fullPath, 1, mark - 1),
     params |-> From(fullPath, mark + 1),
     query |-> query,
     fragment |-> fragment,
     \* urlsplit raises ValueError("Invalid IPv6 URL")
     invalid |-> (Positions("[", netloc) = {}) # (Positions("]", netloc) = {})]

\* path?query, split at the first "?"
QueryParts(scheme, netloc, beforeHash, mark, fragment) ==
    PathParts(scheme, netloc, SubSeq(beforeHash, 1, mark - 1),
              ParamsMark(SubSeq(beforeHash, 1, mark - 1)),
              From(beforeHash, mark + 1), fragment)

\* ...#fragment, split at the first "#"
FragmentParts(scheme, netloc, tail, hash) ==
    QueryParts(scheme, netloc, SubSeq(tail, 1, hash - 1),
               FirstOrEnd("?", SubSeq(tail, 1, hash - 1)), From(tail, hash + 1))

\* //netloc and what follows it
NetlocParts(scheme, rest, length) ==
    FragmentParts(scheme, SubSeq(rest, 1, length), From(rest, length + 1),
                  FirstOrEnd("#", From(rest, length + 1)))

\* what follows the scheme
SchemeParts(scheme, rest) ==
    IF StartsWith(<<"/", "/">>, rest)
    THEN NetlocParts(scheme, From(rest, 3), NetlocLength(From(rest, 3)))
    ELSE NetlocParts(scheme, rest, 0)

SplitAt(s, colon) ==
    SchemeParts(IF colon = 0 THEN <<>> ELSE lower(SubSeq(s, 1, colon - 1)),
                From(s, colon + 1))

\* urllib.parse.urlparse: urlsplit, and the params cut off the last path
\* segment
urlparse(s) == SplitAt(s, SchemeColon(s))

\* urllib.parse.urlunparse
urlunparse(scheme, netloc, path, params, query, fragment) ==
    scheme \o <<":", "/", "/">> \o netloc
        \o (IF path # <<>> /\ path[1] # "/" THEN <<"/">> ELSE <<>>) \o path
        \o (IF params = <<>> THEN <<>> ELSE <<";">> \o params)
        \o (IF query = <<>> THEN <<>> ELSE <<"?">> \o query)
        \o (IF fragment = <<>> THEN <<>> ELSE <<"#">> \o fragment)

\* the base path without its last segment, as urljoin computes base_parts
BaseDirectory(bpath) ==
    IF Positions("/", bpath) = {} THEN <<>>
    ELSE SubSeq(bpath, 1, Greatest(Positions("/", bpath)))

\* urljoin on the parsed base b and the parsed reference r
Joined(b, r, u) ==
    IF r.scheme # <<>> /\ r.scheme # b.scheme THEN u
    ELSE IF r.netloc # <<>>
         THEN urlunparse(b.scheme, r.netloc, r.path, r.params, r.query, r.fragment)
    ELSE IF r.path = <<>> /\ r.params = <<>>
         THEN urlunparse(b.scheme, b.netloc, b.path, b.params,
                         IF r.query = <<>> THEN b.query ELSE r.query, r.fragment)
    ELSE IF r.path # <<>> /\ r.path[1] = "/"
         THEN urlunparse(b.scheme, b.netloc, r.path, r.params, r.query, r.fragment)
    ELSE urlunparse(b.scheme, b.netloc, BaseDirectory(b.path) \o r.path,
                    r.params, r.query, r.fragment)

\* urllib.parse.urljoin(base, u) for a base with an http or https scheme and
\* paths without "." and ".." segments and without empty segments
urljoin(base, u) == Joined(urlparse(base), urlparse(u), u)

\* urljoin raises the ValueError of urlsplit
urljoinRaises(base, u) == urlparse(base).invalid \/ urlparse(u).invalid

WikiaHost == <<"w", "i", "k", "i", "a", ".", "n", "o", "c", "o", "o", "k", "i", "e",
               ".", "n", "e", "t">>

\* the alternatives of the regular expression of clean_fandom_url, in order
ImageExtensions ==
    <<<<"p", "n", "g">>, <<"j", "p", "g">>, <<"j", "p", "e", "g">>,
      <<"g", "i", "f">>, <<"w", "e", "b", "p">>>>

\* the alternatives that match (ignoring case) right after position k
ExtensionsAt(s, k) ==
    {a \in 1..Len(ImageExtensions) :
        StartsWith(ImageExtensions[a], lower(From(s, k + 1)))}

\* the first position where the regular expression matches, 0 when none
FirstExtension(u) ==
    IF \E k \in Positions(".", u) : ExtensionsAt(u, k) # {}
    THEN Least({k \in Positions(".", u) : ExtensionsAt(u, k) # {}})
    ELSE 0

\* base_url + query_string (app.py:55-60); match.end() is end_pos
CutAfter(u, end_pos) ==
    SubSeq(u, 1, end_pos)
        \o (IF Positions("?", u) = {} THEN <<>> ELSE From(u, Least(Positions("?", u))))

\* the match starts at the dot at position k
CutAtMatch(u, k) ==
    IF k = 0 THEN u
    ELSE CutAfter(u, k + Len(ImageExtensions[Least(ExtensionsAt(u, k))]))

\* clean_fandom_url (app.py:46-61)
clean_fandom_url(u) ==
    IF ~Contains(WikiaHost, u) THEN u ELSE CutAtMatch(u, FirstExtension(u))

\* os.path.basename
basename(path) ==
    IF Positions("/", path) = {} THEN path
    ELSE From(path, Greatest(Positions("/", path)) + 1)

\* the percent escapes the model decodes
Escapes == {<<"2", "0">>, <<"5", "F">>, <<"2", "E">>}
Decoded(hex) == IF hex = <<"2", "0">> THEN " " ELSE IF hex = <<"5", "F">> THEN "_" ELSE "."

\* urllib.parse.unquote, for the escapes above
RECURSIVE unquote(_)
unquote(s) ==
    IF s = <<>> THEN <<>>
    ELSE IF s[1] = "%" /\ Len(s) >= 3 /\ SubSeq(s, 2, 3) \in Escapes
         THEN <<Decoded(SubSeq(s, 2, 3))>> \o unquote(From(s, 4))
    ELSE <<s[1]>> \o unquote(Tail(s))

\* the position of the last c in s, 0 when there is none
LastOrZero(c, s) == IF Positions(c, s) = {} THEN 0 ELSE Greatest(Positions(c, s))

SplitRoot(p, sepIndex, dotIndex) ==
    IF dotIndex > sepIndex /\ \E k \in (sepIndex + 1)..(dotIndex - 1) : p[k] # "."
    THEN SubSeq(p, 1, dotIndex - 1)
    ELSE p

\* os.path.splitext(p)[0]: the extension starts at the last dot, unless only
\* dots precede it in the last component
splitext_root(p) == SplitRoot(p, LastOrZero("/", p), LastOrZero(".", p))

\* app.py:141-143 and 167-169: image_name_from_url
image_name_from_url(src) == splitext_root(unquote(basename(urlparse(src).path)))

----------------------------------------------------------------------------
(* scrape: the documents *)

\* longest list of img elements in a page
MaxElems == 2

\* len(final_name) > 80 (app.py:163)
SuspiciousLength == 80

PageUrl == <<"h", "t", "t", "p", ":", "/", "/", "h", "/", "d", "/", "p">>

RelativeSrc == <<"a", ".", "p", "n", "g">>
RootedSrc == <<"/", "d", "/", "a", ".", "p", "n", "g">>
DirectorySrc == <<"h", "t", "t", "p", ":", "/", "/", "h", "/", "d", "/">>
WikiaSrc == <<"h", "t", "t", "p", ":", "/", "/">> \o WikiaHost
                \o <<"/", "P", "_", "1", ".", "P", "N", "G", "?", "c">>
WikiaResizedSrc == <<"h", "t", "t", "p", ":", "/", "/">> \o WikiaHost
                \o <<"/", "P", "_", "1", ".", "P", "N", "G", "/", "r", "/", "9", "?", "c">>
InvalidSrc == <<"/", "/", "[">>

\* the src and data-src attributes: <<>> when absent or empty
SrcAttributes ==
    {<<>>, RelativeSrc, RootedSrc, DirectorySrc, WikiaSrc, WikiaResizedSrc, InvalidSrc}

LongText == [k \in 1..(SuspiciousLength + 1) |-> "x"]
\* the longest text that is not suspicious by its length
EdgeText == [k \in 1..SuspiciousLength |-> "y"]

\* the nearest enclosing figure: none, or one with the text of its first
\* figcaption (kind "nocaption" when it has no figcaption)
NoFigure == [kind |-> "none", text |-> <<>>]
Figures ==
    {NoFigure, [kind |-> "nocaption", text |-> <<>>],
     [kind |-> "caption", text |-> <<"c", " ">>]}

Element4(d, sr, a, f) == [data_src : d, src : sr, alt : a, figure : f]

BlankAlt == StrAlt(<<" ">>)
PlainAlt == StrAlt(<<" ", "x", "_", "y">>)
ScriptAlts == {StrAlt(<<"x", ".", "P", "h", "p">>), StrAlt(<<"h", "t", "t", "p", "s", ":">>)}

\* the img elements of the documents: without a usable source; inside a
\* figure or not, without alt text; with an alt text; with a suspicious alt
\* text; with nothing but a source; with a data-src; with an alt text inside
\* a figure; with an alt text at the edge of suspicion or naming a script
Elements ==
    Element4({<<>>}, {<<>>, InvalidSrc}, {AbsentAlt}, {NoFigure})
    \cup Element4({<<>>}, {RelativeSrc}, {AbsentAlt, BlankAlt}, Figures)
    \cup Element4({<<>>}, {DirectorySrc}, {AbsentAlt}, Figures)
    \cup Element4({<<>>}, SrcAttributes \ {<<>>, WikiaSrc, InvalidSrc}, {PlainAlt}, {NoFigure})
    \cup Element4({<<>>}, {RootedSrc}, {StrAlt(<<"H", "T", "T", "P", ":">>)}, {NoFigure})
    \cup Element4({<<>>}, {DirectorySrc, WikiaSrc}, {StrAlt(LongText)}, {NoFigure})
    \cup Element4({<<>>}, {RootedSrc, WikiaSrc, WikiaResizedSrc}, {AbsentAlt}, {NoFigure})
    \cup Element4({RelativeSrc}, {<<>>, DirectorySrc}, {AbsentAlt}, {NoFigure})
    \cup Element4({<<>>}, {RelativeSrc}, {PlainAlt}, Figures)
    \cup Element4({<<>>}, {RootedSrc}, {StrAlt(EdgeText)} \cup ScriptAlts, {NoFigure})

Documents == UNION {[1..n -> Elements] : n \in 0..MaxElems}

----------------------------------------------------------------------------
(* scrape: the element loop (app.py:107-180) *)

\* img.get('data-src') or img.get('src')
SourceAttribute(img) == IF img.data_src # <<>> THEN img.data_src ELSE img.src

\* app.py:117-118
CanonicalSrc(base, raw) == clean_fandom_url(urljoin(base, raw))

AlreadySeen_Never(src, seen) == FALSE

\* src in seen_srcs (app.py:119)
AlreadySeen(src, seen) == src \in seen

\* app.py:140-149 and 166-175: the name from the URL, <<>> when the basename
\* gives none or urlparse raises
NameFromUrl(src) ==
    IF urlparse(src).invalid THEN <<>> ELSE image_name_from_url(src)

AltName_Unstripped(img) == IF img.alt.kind = "str" THEN img.alt.text ELSE <<>>

\* Rule 1 (app.py:126-128): the stripped alt text, <<>> when there is none
AltName(img) == IF img.alt.kind = "str" THEN strip(img.alt.text) ELSE <<>>

\* Rule 2 (app.py:131-136): the text of the figcaption of the parent figure
CaptionName(img) ==
    IF img.figure.kind = "caption" THEN strip(img.figure.text) ELSE <<>>

\* app.py:123-149: final_name before the cleanup, <<>> when no rule names it
DerivedName(img, src) ==
    IF AltName(img) # <<>> THEN AltName(img)
    ELSE IF CaptionName(img) # <<>> THEN CaptionName(img)
    ELSE NameFromUrl(src)

\* the element is skipped by the continue of app.py:149
UrlNameRaises(img, src) ==
    AltName(img) = <<>> /\ CaptionName(img) = <<>> /\ urlparse(src).invalid

is_suspicious_FromEighty(final_name) ==
    \/ Contains(<<"h", "t", "t", "p", ":">>, lower(final_name))
    \/ Contains(<<"h", "t", "t", "p", "s", ":">>, lower(final_name))
    \/ Contains(<<".", "p", "h", "p">>, lower(final_name))
    \/ Len(final_name) >= SuspiciousLength

\* app.py:160-163
is_suspicious(final_name) ==
    \/ Contains(<<"h", "t", "t", "p", ":">>, lower(final_name))
    \/ Contains(<<"h", "t", "t", "p", "s", ":">>, lower(final_name))
    \/ Contains(<<".", "p", "h", "p">>, lower(final_name))
    \/ Len(final_name) > SuspiciousLength

\* app.py:165-172: a suspicious name gives way to a name from the URL
Cleaned(name, fromUrl) ==
    IF is_suspicious(name) /\ fromUrl # <<>> THEN fromUrl ELSE name

\* app.py:158-178: the cleanup of a suspicious name, then the underscores
FinalName(img, src) ==
    ReplaceUnderscores(Cleaned(DerivedName(img, src), NameFromUrl(src)))

\* app.py:87-104: the request is read and the page fetched and parsed
ScrapeStart ==
    /\ scrape_pc = "request"
    /\ url' \in {<<>>, PageUrl}
    /\ page' \in {"ok", "error"}
    /\ url' = <<>> => page' = "ok"
    /\ scrape_pc' = IF url' = <<>> THEN "error 400"
                    ELSE IF page' = "error" THEN "error 500"
                    ELSE "loop"
    /\ UNCHANGED <<soup, done, images, seen_srcs>>
    /\ UNCHANGED <<batchVars, imageVars>>

Emit_SeenBeforeNamed(img, src) ==
    IF AlreadySeen(src, seen_srcs)
    THEN UNCHANGED <<scrape_pc, images, seen_srcs>>
    ELSE IF UrlNameRaises(img, src) \/ DerivedName(img, src) = <<>>
    THEN /\ seen_srcs' = seen_srcs \cup {src}
         /\ UNCHANGED <<scrape_pc, images>>
    ELSE /\ seen_srcs' = seen_srcs \cup {src}
         /\ images' = Append(images, [src |-> src, alt |-> FinalName(img, src)])
         /\ UNCHANGED scrape_pc

\* app.py:119-180: the element with the canonical URL src is skipped, or
\* its record is emitted
Emit(img, src) ==
    IF \/ AlreadySeen(src, seen_srcs)
       \/ UrlNameRaises(img, src)
       \/ DerivedName(img, src) = <<>>
    THEN UNCHANGED <<scrape_pc, images, seen_srcs>>
    ELSE /\ seen_srcs' = seen_srcs \cup {src}
         /\ images' = Append(images, [src |-> src, alt |-> FinalName(img, src)])
         /\ UNCHANGED scrape_pc

\* app.py:112-118: the source attribute raw of the element; a ValueError of
\* urljoin (app.py:117) is caught nowhere and ends the handler
Visit(img, raw) ==
    IF raw = <<>>
    THEN UNCHANGED <<scrape_pc, images, seen_srcs>>
    ELSE IF urljoinRaises(url, raw)
    THEN /\ scrape_pc' = "error 500"
         /\ UNCHANGED <<images, seen_srcs>>
    ELSE Emit(img, CanonicalSrc(url, raw))

\* app.py:107-180: one iteration of the loop over soup.find_all('img')
Element ==
    /\ scrape_pc = "loop"
    /\ done < Len(soup)
    /\ Visit(soup[done + 1], SourceAttribute(soup[done + 1]))
    /\ done' = done + 1
    /\ UNCHANGED <<url, page, soup>>
    /\ UNCHANGED <<batchVars, imageVars>>

\* app.py:182: return jsonify(images)
ScrapeReturn ==
    /\ scrape_pc = "loop"
    /\ done = Len(soup)
    /\ scrape_pc' = "returned"
    /\ UNCHANGED <<url, page, soup, done, images, seen_srcs>>
    /\ UNCHANGED <<batchVars, imageVars>>

\* no batch request is being handled
BatchIdle ==
    /\ images_to_download = <<>>
    /\ net = <<>>
    /\ pc = "idle"
    /\ response = "none"
    /\ wpc = <<>>
    /\ filename = <<>>
    /\ future = <<>>
    /\ lock = 0
    /\ seen_filenames = {}
    /\ zf = <<>>
    /\ yielded = {}
    /\ raised = FALSE

\* soup is the document the page URL of the request serves
InitScrape ==
    /\ url = <<>>
    /\ page = "none"
    /\ soup \in Documents
    /\ scrape_pc = "request"
    /\ done = 0
    /\ images = <<>>
    /\ seen_srcs = {}
    /\ BatchIdle
    /\ ImageIdle

NextScrape == ScrapeStart \/ Element \/ ScrapeReturn

SpecScrape == InitScrape /\ [][NextScrape]_vars

----------------------------------------------------------------------------
(* download_image, app.py:211-248, next to a batch of one item *)

DownloadExtension_WithoutSvg(content_type) ==
    IF content_type = <<>> THEN JPG
    ELSE IF Contains(<<"j", "p", "e", "g">>, content_type) THEN JPG
    ELSE IF Contains(<<"p", "n", "g">>, content_type) THEN PNG
    ELSE IF Contains(<<"g", "i", "f">>, content_type) THEN GIF
    ELSE JPG

\* app.py:226-236: the extension download_image infers
DownloadExtension(content_type) ==
    IF content_type = <<>> THEN JPG
    ELSE IF Contains(<<"j", "p", "e", "g">>, content_type) THEN JPG
    ELSE IF Contains(<<"p", "n", "g">>, content_type) THEN PNG
    ELSE IF Contains(<<"g", "i", "f">>, content_type) THEN GIF
    ELSE IF Contains(<<"s", "v", "g">>, content_type) THEN SVG
    ELSE JPG

\* data.get('alt', 'no_alt_name') (app.py:216)
DownloadAltText(d) == IF d.alt.kind = "absent" THEN StrAlt(NoAltName) ELSE d.alt

\* app.py:238
DownloadName(alt_text, content_type) ==
    sanitize_filename(alt_text) \o DownloadExtension(content_type)

\* what download_image returns
ErrorResponse(code) == [kind |-> code]
FileResponse(name, content) ==
    [kind |-> "file", download_name |-> name, content |-> content]

\* app.py:214-248: the whole handler; the AttributeError of
\* sanitize_filename(None) is no RequestException and leaves the handler
DownloadImage ==
    /\ image_pc = "request"
    /\ image_pc' = "done"
    /\ image_response' =
          IF data.url = <<>> THEN ErrorResponse("error 400")
          ELSE IF image_net.status = "error" THEN ErrorResponse("error 500")
          ELSE IF DownloadAltText(data).kind = "null" THEN ErrorResponse("raised")
          ELSE IF image_net.body = "broken" THEN ErrorResponse("error 500")
          ELSE FileResponse(DownloadName(DownloadAltText(data).text, image_net.content_type),
                            image_net.body)
    /\ UNCHANGED <<data, image_net>>
    /\ UNCHANGED <<batchVars, scrapeVars>>

\* content types of the answers
ImagePng == <<"i", "m", "a", "g", "e", "/", "p", "n", "g">>
ImageGif == <<"i", "m", "a", "g", "e", "/", "g", "i", "f">>
ImageSvg == <<"i", "m", "a", "g", "e", "/", "s", "v", "g", "+", "x", "m", "l">>
TextHtml == <<"t", "e", "x", "t", "/", "h", "t", "m", "l">>
ImageXPng == <<"i", "m", "a", "g", "e", "/", "x", "-", "p", "n", "g">>
ContentTypes == {<<>>, ImageJpeg, ImagePng, ImageGif, ImageSvg, TextHtml, ImageXPng}

\* suggested names: with an extension of their own, with every character
\* sanitize_filename removes, longer than the limit after the removal
ExtensionName == <<"a", "_", "b", ".", "p", "n", "g">>
InvalidName == <<"a", "\\", "/", "*", "?", ":", "\"", "<", ">", "|", "b">>
LongName == <<"*">> \o [k \in 1..NameLimit |-> "z"] \o <<"_", "w">>
NameAlts ==
    {AbsentAlt, NullAlt, StrAlt(<<>>), StrAlt(ExtensionName), StrAlt(InvalidName),
     StrAlt(LongName)}

\* the items whose fetch succeeds, and one of each failure
NameCases ==
    [src : {<<"u">>}, alt : NameAlts, net : {Answered(ct, "c1") : ct \in ContentTypes}]
        \cup [src : {<<"u">>}, alt : {AbsentAlt},
              net : {Failed, Answered(ImageJpeg, "broken")}]
        \cup [src : {<<>>}, alt : {AbsentAlt}, net : {Failed}]

\* the same item is asked of download_image
Asked(c) ==
    /\ data = [url |-> c.src, alt |-> c.alt]
    /\ image_net = c.net
    /\ image_pc = "request"
    /\ image_response = NoResponse

InitNames == \E c \in NameCases : Arrived(<<c>>) /\ Asked(c)

NextNames == Next \/ DownloadImage

SpecNames == InitNames /\ [][NextNames]_vars

----------------------------------------------------------------------------
(* What the inputs alone determine *)

\* the request reaches app.py:285 and computes a filename
Named(i) ==
    /\ images_to_download[i].src # <<>>
    /\ net[i].status = "ok"
    /\ AltText(images_to_download[i]).kind = "str"

\* the filename request i computes at app.py:285
NameOf(i) ==
    sanitize_filename(AltText(images_to_download[i]).text) \o Extension(net[i].content_type)

\* the fetch of request i succeeds, headers and body
Fetched(i) == Named(i) /\ net[i].body # "broken"

\* the fetch of request i ends in a RequestException
TransportFailure(i) ==
    /\ images_to_download[i].src # <<>>
    /\ \/ net[i].status = "error"
       \/ Named(i) /\ net[i].body = "broken"

EntryOf(i) == [filename |-> NameOf(i), content |-> net[i].body]

Archived == {zf[k] : k \in 1..Len(zf)}

EntriesNamed(f) == {k \in 1..Len(zf) : zf[k].filename = f}

\* every suggested name of the batch is a string (or absent, and defaulted)
NamesAreStrings == \A i \in Requests : AltText(images_to_download[i]).kind = "str"

----------------------------------------------------------------------------
(* Claims *)

\* C1: in every reachable state of a batch, under every interleaving of the
\* workers, no two entries written to the archive have the same filename.
C1_UniqueArchiveNames ==
    \A a, b \in 1..Len(zf) : a # b => zf[a].filename # zf[b].filename

\* two workers computed the same filename, both finished, one was archived
C1_Witness ==
    \E i, j \in Requests :
        /\ i # j
        /\ Fetched(i) /\ Fetched(j)
        /\ NameOf(i) = NameOf(j)
        /\ yielded = Requests
        /\ EntriesNamed(NameOf(i)) # {}

\* C2: when two requests of a batch that both fetch successfully compute the
\* same filename, the returned archive has exactly one entry with that
\* filename, and every entry carries the filename some request computed (no
\* renamed or suffixed variant).
C2_ExactlyOneEntry ==
    response = "archive" =>
        /\ \A i, j \in Requests :
              (i # j /\ Fetched(i) /\ Fetched(j) /\ NameOf(i) = NameOf(j))
                  => Cardinality(EntriesNamed(NameOf(i))) = 1
        /\ \A k \in 1..Len(zf) :
              \E i \in Requests : Named(i) /\ zf[k].filename = NameOf(i)

\* C3: called with an empty request list, download_selected returns an
\* archive with zero entries and not an error.
C3_EmptyListGivesEmptyArchive ==
    (pc = "done" /\ images_to_download = <<>>) => (response = "archive" /\ zf = <<>>)

\* C4: in a non-empty batch of requests a request whose fetch fails with a
\* transport error contributes no archive entry (every entry is the filename
\* and content of a request whose fetch succeeded), the batch still returns
\* an archive and not an error, and when every request fails the archive has
\* zero entries.
C4_FailedFetchesAreDropped ==
    /\ \A k \in 1..Len(zf) :
          \E i \in Requests : Fetched(i) /\ zf[k] = EntryOf(i)
    /\ (pc = "done" /\ images_to_download # <<>> /\ NamesAreStrings)
          => response = "archive"
    /\ (pc = "done" /\ images_to_download # <<>> /\ \A i \in Requests : TransportFailure(i))
          => (response = "archive" /\ zf = <<>>)

\* a batch whose every fetch failed, one before the headers and one while
\* the body was read, has returned
C4_Witness ==
    /\ pc = "done"
    /\ response = "archive"
    /\ zf = <<>>
    /\ \A i \in Requests : TransportFailure(i)
    /\ \E i, j \in Requests : net[i].status = "error" /\ net[j].body = "broken"

\* C5: a failure of one request never aborts its siblings: in the returned
\* archive every request that fetched successfully and whose filename no
\* other request of the batch computes has its (filename, content) entry,
\* whatever the other requests' outcomes and whatever the interleaving.
C5_SiblingsAreArchived ==
    response = "archive" =>
        \A i \in Requests :
            (Fetched(i) /\ \A j \in Requests : (j # i /\ Named(j)) => NameOf(j) # NameOf(i))
                => EntryOf(i) \in Archived

\* a request is archived next to a sibling that failed before it finished
C5_Witness ==
    /\ response = "archive"
    /\ \E i, j \in Requests :
          /\ TransportFailure(j)
          /\ Fetched(i)
          /\ EntryOf(i) \in Archived
          /\ Len(zf) = 1

\* C6: no error raised inside a worker reaches the aggregating loop: for
\* every request item, a missing, null or malformed name or source included,
\* the future holds a result or "no result", the loop is never left by an
\* exception, and a non-empty batch returns an archive.
C6_NoErrorLeavesAWorker ==
    /\ \A i \in Requests : future[i] # Raised
    /\ ~raised
    /\ (pc = "done" /\ images_to_download # <<>>) => response = "archive"

\* the requests whose fetch is in flight
InFlight == {i \in Requests : wpc[i] \in {"fetch", "content"}}

\* C7: at every moment of a batch the number of requests whose fetch is in
\* flight is at most the pool size, also for lists longer than the pool.
C7_InFlightWithinPool == Cardinality(InFlight) <= max_workers

\* the pool is full of fetches and a request still waits in the queue
C7_Witness ==
    /\ Cardinality(InFlight) = max_workers
    /\ \E i \in Requests : wpc[i] = "queued"

\* C8: a batch eventually returns, and when it has returned every submitted
\* request has finished: no worker is still running and no request is left
\* in the queue.
C8_RunsToCompletion ==
    /\ <>(pc = "done")
    /\ [](pc = "done" =>
            \A i \in Requests : wpc[i] = "done" /\ future[i] # Pending)

\* the batch returned on an exception while futures were not yet collected
C8_Witness ==
    /\ pc = "done"
    /\ response = "error 500"
    /\ yielded # Requests

\* the entries archived when the workers run one after the other in the
\* order of the request list: one of the interleavings of the batch
RECURSIVE SubmissionOrderRun(_, _, _)
SubmissionOrderRun(k, seen, entries) ==
    IF k > Len(images_to_download) THEN entries
    ELSE IF ~Named(k) \/ NameOf(k) \in seen
         THEN SubmissionOrderRun(k + 1, seen, entries)
    ELSE SubmissionOrderRun(k + 1, seen \cup {NameOf(k)},
             IF Fetched(k) THEN entries \cup {EntryOf(k)} ELSE entries)

\* C9 as stated: for a fixed request list and a fixed outcome of every
\* fetch, every interleaving yields the same set of archived (filename,
\* content) entries, so every returned archive holds the entries of the
\* interleaving that runs the workers in the order of the list.
C9_SameEntriesInEveryInterleaving ==
    response = "archive" => Archived = SubmissionOrderRun(1, {}, {})

\* exactly one request of the batch computes the filename f
ComputedOnce(f) == Cardinality({i \in Requests : Named(i) /\ NameOf(i) = f}) = 1

\* C9 as amended: for a fixed request list and a fixed outcome of every
\* fetch, every interleaving that returns an archive yields the same entries
\* for the filenames that exactly one request of the batch computes: the
\* entries of those requests among them whose fetch succeeded.
C9_SameEntriesOutsideCollisions ==
    response = "archive" =>
        {e \in Archived : ComputedOnce(e.filename)}
            = {EntryOf(i) : i \in {j \in Requests : Fetched(j) /\ ComputedOnce(NameOf(j))}}

\* an archive was returned with the entries of two requests with different
\* filenames, written in the reverse of the order of the request list
C9_Witness ==
    /\ response = "archive"
    /\ Len(zf) = 2
    /\ Fetched(1) /\ Fetched(2)
    /\ ComputedOnce(NameOf(1)) /\ ComputedOnce(NameOf(2))
    /\ zf[1] = EntryOf(2)
    /\ zf[2] = EntryOf(1)

\* C10: for every document, after any prefix of the element loop of scrape,
\* no two records of the output list have the same source URL.
C10_UniqueSourceUrls ==
    \A a, b \in 1..Len(images) : a # b => images[a].src # images[b].src

\* two elements with different source attributes resolved to the same
\* canonical URL, and the loop went through both
C10_Witness ==
    /\ done = 2
    /\ Len(images) = 1
    /\ SourceAttribute(soup[1]) # SourceAttribute(soup[2])
    /\ SourceAttribute(soup[2]) # <<>>
    /\ CanonicalSrc(url, SourceAttribute(soup[2])) = images[1].src

----------------------------------------------------------------------------
(* Claims about the element loop of scrape *)

\* the loop goes through the element soup[done + 1]
Visits == scrape_pc = "loop" /\ done < Len(soup) /\ done' = done + 1

\* the element gets no canonical URL: no source, or urljoin raises
Anomalous(img) ==
    SourceAttribute(img) = <<>> \/ urljoinRaises(PageUrl, SourceAttribute(img))

\* the canonical URL of an element that is not anomalous
SrcOf(img) == CanonicalSrc(PageUrl, SourceAttribute(img))

\* the source URLs of the records of a list
SrcsOf(records) == {records[k].src : k \in 1..Len(records)}

\* the first of three names that is not empty, <<>> when all are
FirstNonEmpty(a, b, c) == IF a # <<>> THEN a ELSE IF b # <<>> THEN b ELSE c

\* the name the claim expects to win for the element: the trimmed alt text,
\* else the text of the figcaption of the enclosing figure, else the
\* percent-decoded basename of the URL path without its extension
ExpectedWinner(img) ==
    FirstNonEmpty(
        IF img.alt.kind = "str" THEN strip(img.alt.text) ELSE <<>>,
        IF img.figure.kind = "caption" THEN strip(img.figure.text) ELSE <<>>,
        splitext_root(unquote(basename(urlparse(SrcOf(img)).path))))

\* the tokens that make a name suspicious
SuspiciousTokens ==
    {<<"h", "t", "t", "p", ":">>, <<"h", "t", "t", "p", "s", ":">>, <<".", "p", "h", "p">>}

\* the name is suspicious in the words of the claim
LooksSuspicious(name) ==
    \/ \E t \in SuspiciousTokens : Contains(t, lower(name))
    \/ Len(name) > SuspiciousLength

\* the record the step has appended
Last(records) == records[Len(records)]

\* C11: for every image element with a source, the name that wins is the
\* trimmed alt text if it is not empty, otherwise the figcaption text of the
\* enclosing figure if it is not empty, otherwise the name from the URL
\* basename if it is not empty; an element for which all three are empty
\* emits no record, an element with a winner whose URL was not emitted
\* before emits one, and every emitted record has a non-empty display name
\* (the winner with its underscores replaced, when it is not suspicious).
C11_NamePrecedence ==
    [][(Visits /\ ~Anomalous(soup[done + 1])) =>
          IF ExpectedWinner(soup[done + 1]) = <<>>
                \/ SrcOf(soup[done + 1]) \in SrcsOf(images)
          THEN images' = images
          ELSE /\ Len(images') = Len(images) + 1
               /\ Last(images').src = SrcOf(soup[done + 1])
               /\ Last(images').alt # <<>>
               /\ ~LooksSuspicious(ExpectedWinner(soup[done + 1]))
                     => Last(images').alt
                           = ReplaceUnderscores(ExpectedWinner(soup[done + 1]))]_vars

\* the loop emitted a record named by a caption for an element without alt
\* text, and one named by the URL for an element with a blank alt text
C11_Witness ==
    /\ scrape_pc = "returned"
    /\ Len(images) = 2
    /\ soup[1].alt = AbsentAlt /\ soup[1].figure.kind = "caption"
    /\ images[1].alt = <<"c">>
    /\ soup[2].alt = BlankAlt /\ soup[2].figure.kind = "nocaption"
    /\ images[2].alt = <<"a">>

\* C12: when the winning name is suspicious the emitted name is the name
\* from the URL basename if that is not empty and otherwise the suspicious
\* name itself; a winning name that is not suspicious, in particular one of
\* at most 80 characters without the tokens, is never replaced (the emitted
\* name is in each case the chosen name with its underscores replaced).
C12_SuspiciousOverride ==
    [][(Visits /\ ~Anomalous(soup[done + 1]) /\ Len(images') = Len(images) + 1) =>
          Last(images').alt = ReplaceUnderscores(
              IF LooksSuspicious(DerivedName(soup[done + 1], SrcOf(soup[done + 1])))
                    /\ NameFromUrl(SrcOf(soup[done + 1])) # <<>>
              THEN NameFromUrl(SrcOf(soup[done + 1]))
              ELSE DerivedName(soup[done + 1], SrcOf(soup[done + 1])))]_vars

\* a suspicious alt text gave way to the URL name, one without a URL name
\* was kept, in one pass
C12_Witness ==
    /\ scrape_pc = "returned"
    /\ Len(images) = 2
    /\ soup[1].alt = StrAlt(LongText) /\ images[1].alt = <<"P", " ", "1">>
    /\ soup[2].alt = StrAlt(LongText) /\ images[2].alt = LongText

\* the record of an element that is not anomalous
RecordOf(img) == [src |-> SrcOf(img), alt |-> FinalName(img, SrcOf(img))]

\* the element gets a record after the records out
Emits(img, out) ==
    /\ ~Anomalous(img)
    /\ SrcOf(img) \notin SrcsOf(out)
    /\ ~UrlNameRaises(img, SrcOf(img))
    /\ DerivedName(img, SrcOf(img)) # <<>>

\* the records of a pass over elems that starts from the records out
RECURSIVE RecordsOf(_, _)
RecordsOf(elems, out) ==
    IF elems = <<>> THEN out
    ELSE RecordsOf(Tail(elems),
                   IF Emits(Head(elems), out)
                   THEN Append(out, RecordOf(Head(elems)))
                   ELSE out)

\* the document without its anomalous elements
WithoutAnomalies(elems) == SelectSeq(elems, LAMBDA e : ~Anomalous(e))

\* C13: an anomaly of one element (no source attribute, a source URL that
\* does not parse) never aborts the extraction: the handler fails only when
\* the page cannot be fetched, and the records it returns are those of the
\* document without the anomalous elements.
C13_AnomaliesAreSkipped ==
    /\ scrape_pc = "error 500" => page = "error"
    /\ scrape_pc = "returned" => images = RecordsOf(WithoutAnomalies(soup), <<>>)

\* C19: an element whose canonical URL is that of an emitted record emits
\* nothing and leaves the list as it is; a URL is seen only once a record
\* was emitted for it, so an element skipped for lack of a name does not
\* suppress a later element with the same URL and a name.
C19_SeenOnlyOnceEmitted ==
    /\ [](seen_srcs = SrcsOf(images))
    /\ [][(Visits /\ ~Anomalous(soup[done + 1])) =>
             IF SrcOf(soup[done + 1]) \in SrcsOf(images)
             THEN images' = images
             ELSE (DerivedName(soup[done + 1], SrcOf(soup[done + 1])) # <<>>
                      /\ ~UrlNameRaises(soup[done + 1], SrcOf(soup[done + 1])))
                     => images' = Append(images, RecordOf(soup[done + 1]))]_vars

\* an element without a name was skipped and a later element with the same
\* URL and a name was emitted
C19_Witness ==
    /\ scrape_pc = "returned"
    /\ Len(soup) = 2
    /\ ~Anomalous(soup[1]) /\ ~Anomalous(soup[2])
    /\ SrcOf(soup[1]) = SrcOf(soup[2])
    /\ DerivedName(soup[1], SrcOf(soup[1])) = <<>>
    /\ images = <<RecordOf(soup[2])>>

----------------------------------------------------------------------------
(* Claims about the namespace and its lock *)

\* the filenames of the entries of the archive
ArchivedNames == {zf[k].filename : k \in 1..Len(zf)}

\* C16: the namespace starts empty and gains a name only for a successful,
\* non-colliding download: when the batch has completed, the names in the
\* namespace are exactly the filenames of the entries of the archive.
C16_NamespaceIsArchiveNames ==
    /\ pc = "request" => seen_filenames = {}
    /\ response = "archive" => seen_filenames = ArchivedNames

\* the other requests of the batch that compute the filename of request i
SameNamed(i) == {j \in Requests \ {i} : Named(j) /\ NameOf(j) = NameOf(i)}

\* C17 as stated: of several requests with the same filename the one whose
\* worker completes first is the one whose content is archived; so when one
\* of them, its fetch successful, has completed before every other, its
\* result was kept and not discarded.
C17_FirstCompletedWins ==
    \A j \in Requests :
        (/\ Fetched(j)
         /\ SameNamed(j) # {}
         /\ wpc[j] = "done"
         /\ \A i \in SameNamed(j) : wpc[i] # "done")
            => future[j] = Result(NameOf(j), net[j].body)

\* the workers that found the filename f free at the check under the lock
\* and have not failed since
Holders(f) ==
    {i \in Requests :
        /\ filename[i] = f
        /\ wpc[i] \in {"add", "content"} \/ future[i].kind = "result"}

\* C17, amended: of several requests with the same filename at most one
\* finds the name free at the check under the lock; an archived entry with
\* that filename is the only one and carries the content of that request,
\* and every other worker with the filename ends without a result, whether
\* it completes before or after that request.
C17_RegistrantWins ==
    \A i \in Requests :
        (Named(i) /\ SameNamed(i) # {}) =>
            /\ Cardinality(Holders(NameOf(i))) <= 1
            /\ Cardinality(EntriesNamed(NameOf(i))) <= 1
            /\ \A k \in EntriesNamed(NameOf(i)) :
                  \E h \in Holders(NameOf(i)) : zf[k] = EntryOf(h)
            /\ \A j \in Requests :
                  (filename[j] = NameOf(i) /\ wpc[j] = "done" /\ j \notin Holders(NameOf(i)))
                      => future[j] \in {NoResult, OnRequestException}

\* the later of two same-name requests was archived, the earlier one, whose
\* fetch succeeded with another content, was discarded
C17_Witness ==
    /\ response = "archive"
    /\ \E i, j \in Requests :
          /\ j < i
          /\ Fetched(i) /\ Fetched(j)
          /\ NameOf(i) = NameOf(j)
          /\ net[i].body # net[j].body
          /\ future[j] = NoResult
          /\ zf = <<EntryOf(i)>>

\* C18: no worker holds the lock while it fetches: the lock is held only by
\* a worker between the membership test and the insertion, and both ways out
\* of them release it, so whenever a worker waits for the lock or holds it
\* some worker can take its next step at the lock.
C18_LockOnlyAroundTheCheck ==
    /\ \A i \in Requests : wpc[i] \in {"queued", "fetch", "lock", "content", "done"} => lock # i
    /\ lock # 0 => (lock \in Requests /\ wpc[lock] \in {"check", "add"})
    /\ (\E i \in Requests : wpc[i] \in {"lock", "check", "add"})
          => \E i \in Requests : ENABLED (Acquire(i) \/ Check(i) \/ Add(i))

\* a worker holds the lock while another one is in its fetch
C18_Witness ==
    \E i, j \in Requests :
        /\ wpc[i] = "fetch"
        /\ lock = j
        /\ wpc[j] = "add"

----------------------------------------------------------------------------
(* Claims about filenames *)

\* the substrings looked for in the content type, in their order, and the
\* extension each stands for
ExtensionTokens ==
    << <<<<"j", "p", "e", "g">>, JPG>>, <<<<"p", "n", "g">>, PNG>>,
       <<<<"g", "i", "f">>, GIF>>, <<<<"s", "v", "g">>, SVG>> >>

\* the extension of the first token the content type contains, .jpg if none
FirstMatch(content_type) ==
    IF \E k \in DOMAIN ExtensionTokens : Contains(ExtensionTokens[k][1], content_type)
    THEN ExtensionTokens[Least({k \in DOMAIN ExtensionTokens :
                                   Contains(ExtensionTokens[k][1], content_type)})][2]
    ELSE JPG

\* the extension by the table of the claim: the four media types, .jpg for
\* an absent or any other content type
ByMediaType(content_type) ==
    IF content_type = ImageJpeg THEN JPG
    ELSE IF content_type = ImagePng THEN PNG
    ELSE IF content_type = ImageGif THEN GIF
    ELSE IF StartsWith(<<"i", "m", "a", "g", "e", "/", "s", "v", "g">>, content_type) THEN SVG
    ELSE JPG

\* C14 as stated: the filename of a fetched request is its sanitized name
\* followed by the extension of the content type: .jpg, .png, .gif, .svg
\* for image/jpeg, image/png, image/gif, image/svg*, and .jpg for an absent
\* or unrecognized content type.
C14_ExtensionByMediaType ==
    \A i \in Requests :
        filename[i] # <<>> =>
            filename[i] = sanitize_filename(AltText(images_to_download[i]).text)
                              \o ByMediaType(net[i].content_type)

\* C14, amended: the filename of a fetched request is its sanitized name
\* followed by the extension of the first of 'jpeg', 'png', 'gif', 'svg'
\* that the content type contains anywhere, .jpg when it contains none or is
\* absent; the extension is appended whatever the name ends in and does
\* not depend on the name.
C14_ExtensionByFirstToken ==
    \A i \in Requests :
        filename[i] # <<>> =>
            filename[i] = sanitize_filename(AltText(images_to_download[i]).text)
                              \o FirstMatch(net[i].content_type)

\* a name that ends in .png was archived with the extension of image/gif
C14_Witness ==
    /\ response = "archive"
    /\ images_to_download[1].alt = StrAlt(ExtensionName)
    /\ net[1].content_type = ImageGif
    /\ zf = <<[filename |-> <<"a", " ", "b", ".", "p", "n", "g", ".", "g", "i", "f">>,
               content |-> "c1"]>>

\* the characters no entry name may contain
ForbiddenChars == {"/", "\\", "*", "?", ":", "\"", "<", ">", "|", "_"}

\* C15: every entry name written to the archive is flat: it contains no path
\* separator, none of the other characters sanitize_filename strips and no
\* underscore, and its stem is at most 100 characters long.
C15_FlatEntryNames ==
    \A k \in 1..Len(zf) :
        /\ \A p \in 1..Len(zf[k].filename) : zf[k].filename[p] \notin ForbiddenChars
        /\ Len(splitext_root(zf[k].filename)) <= NameLimit

\* a name longer than the limit was archived with a stem of the limit's
\* length, and a name of forbidden characters without them
C15_Witness ==
    /\ response = "archive"
    /\ Len(zf) = 1
    /\ \/ /\ images_to_download[1].alt = StrAlt(LongName)
          /\ Len(splitext_root(zf[1].filename)) = NameLimit
       \/ /\ images_to_download[1].alt = StrAlt(InvalidName)
          /\ splitext_root(zf[1].filename) = <<"a", "b">>

\* C20: download_image and download_and_prepare compute the same filename
\* for every suggested name and content type, the default name of an item
\* without a name included: asked for the same item, download_image sends
\* a file under the filename of the worker, and sends a file whenever the
\* worker has computed a filename and the body can be read.
C20_SameFilename ==
    \A i \in Requests :
        (image_pc = "done" /\ wpc[i] \notin {"queued", "fetch"}) =>
            IF filename[i] # <<>>
            THEN IF net[i].body = "broken"
                 THEN image_response = ErrorResponse("error 500")
                 ELSE image_response = FileResponse(filename[i], net[i].body)
            ELSE image_response.kind # "file"

\* both handlers named an item without a name after the default
C20_Witness ==
    /\ image_pc = "done"
    /\ data.alt = AbsentAlt
    /\ response = "archive"
    /\ zf # <<>>
    /\ image_response.kind = "file"
    /\ image_response.download_name = zf[1].filename
    /\ image_response.download_name = <<"n", "o", " ", "a", "l", "t", " ", "n", "a", "m", "e">> \o PNG

====
